---- MODULE Spec2Model ----
(***************************************************************************)
(* Model of ship.py: the send/receive pairing (find_pairs), the identifier *)
(* filter language (filter_ids) and its application in __main__, the tail  *)
(* monitor (stream_files), batch mode (sort, filter_duplicates), and the   *)
(* operations on ship files (find_ship_header, read_binary, clear_file),   *)
(* which are followed byte by byte.                                        *)
(*                                                                         *)
(* Trace events are Python dicts that are shared by reference: the list    *)
(* `data` holds references and entry['pair'] is a reference to another     *)
(* dict.  An event is therefore an object id; `ev` maps an id to the       *)
(* decoded fields, `pair` maps an id to the id its 'pair' key refers to    *)
(* (0: the dict has no 'pair' key), and `data` is a sequence of ids.       *)
(***************************************************************************)
EXTENDS Integers, Sequences, FiniteSets, TLC

VARIABLES
  ev,              \* object id -> decoded fields of the event
  data,            \* __main__: the list `data` (sequence of object ids)
  pair,            \* object id -> id held under the 'pair' key, 0 if absent
  pc,              \* position of __main__
  tx,              \* find_pairs: the list tx
  rx_map,          \* find_pairs: the look-up table rx_map
  txi,             \* find_pairs: position of `for entry in tx`
  runs,            \* number of find_pairs calls started
  signal_filter,   \* args.signal_filter   (token list, <<>> when not given)
  mailbox_filter,  \* args.mailbox_filter  (the half before ':', or all of it)
  mailbox_filter2, \* the half after ':' of args.mailbox_filter
  dual,            \* args.mailbox_filter contains ':'
  fi_filter,       \* filter_ids called alone: argument filter
  fi_idset,        \* filter_ids called alone: argument idset
  fi_result,       \* filter_ids called alone: <<returned pair>>, <<>> before
  content,         \* <<read_binary(f, True)>> of the input file, <<>> if no file
  previous_data,   \* stream_files: <<previous_data[f]>>, <<>> if f is no key
  previous,        \* stream_files: local `previous` of the last poll
  entries,         \* stream_files: local `entries` of the last poll
  printed,         \* stream_files: records printed by the last poll
  stderr,          \* stream_files: diagnostics written by the last poll
  spc,             \* position of stream_files
  shown,           \* a presenter: <<filter_duplicates(entries)>>, <<>> before
  file,            \* the bytes of the file at `path`
  original,        \* the bytes of the file when the operation was called
  written,         \* the records the writer of the file stored in it
  op,              \* the operation called on the file: "read" or "clear"
  keep_zeros,      \* read_binary: argument keep_zeros
  fpos,            \* f.tell()
  chunk,           \* find_ship_header: local `data`
  reads_at_end,    \* find_ship_header: reads of the loop that returned b''
  fpc,             \* position of the operation on the file
  header,          \* <<tuple returned by find_ship_header>>, <<>> before
  result,          \* read_binary: the list returned
  ferr,            \* the message on stderr or the exception raised, <<>> if none
  queue,           \* __main__: the input files still to be read
  decoded          \* __main__: `data` of the loop of lines 623-628

vars == <<ev, data, pair, pc, tx, rx_map, txi, runs, signal_filter,
          mailbox_filter, mailbox_filter2, dual, fi_filter,
          fi_idset, fi_result, content, previous_data, previous, entries,
          printed, stderr, spc, shown, file, original, written, op, keep_zeros,
          fpos, chunk, reads_at_end, fpc, header, result, ferr, queue,
          decoded>>

pairVars == <<ev, data, pair, pc, tx, rx_map, txi, runs, shown>>
argVars == <<signal_filter, mailbox_filter, mailbox_filter2, dual>>
fiVars == <<fi_filter, fi_idset, fi_result>>
tailVars == <<content, previous_data, previous, entries, printed, stderr, spc>>
fileVars == <<file, original, written, op, keep_zeros, fpos, chunk,
              reads_at_end, fpc, header, result, ferr, queue, decoded>>

----------------------------------------------------------------------------
(* Bounds *)

MaxEvents == 4
MaxTokens == 3
MaxMainEvents == 2
MaxSlots == 2
MaxBatchEvents == 3
MaxLead == 4
MaxRecords == 2
MaxTrail == 1
MaxReadsAtEnd == 2

----------------------------------------------------------------------------
(* Events *)

ITC_SEND == 0
ITC_RECV == 1

\* microseconds/1e6 of is_pair, kept exact by scaling both sides by 1e6
UsecPerSec == 1000000

Event(type, sender, receiver, signo, connId, seconds, microseconds) ==
  [type |-> type, source |-> 0, sender |-> sender, receiver |-> receiver,
   seconds |-> seconds, microseconds |-> microseconds, signo |-> signo,
   procId |-> 0, connId |-> connId]

\* (seconds, microseconds) of the events of the pairing runs, microseconds
\* below 10^6 as a timeval has them
Stamps == {<<5, 0>>, <<5, 1>>, <<6, 0>>}

\* events of the pairing runs: Sends, Receives and records of a type that is
\* neither, with two keys that differ in connId only
PairEvents ==
  {Event(t, 1, 2, 10, c, s[1], s[2]) : t \in {ITC_SEND, ITC_RECV},
                                        c \in {0, 1}, s \in Stamps}
  \cup {Event(2, 1, 2, 10, 0, s[1], s[2]) : s \in Stamps}

\* key of sorted(data, key = lambda i: (i['seconds'], i['microseconds']))
SortLeq(a, b) ==
  \/ a.seconds < b.seconds
  \/ a.seconds = b.seconds /\ a.microseconds <= b.microseconds

IsTimeSorted(f, n) == \A i \in 1..n : \A j \in i..n : SortLeq(f[i], f[j])

Iota(n) == [i \in 1..n |-> i]

----------------------------------------------------------------------------
(* find_pairs *)

\* pair_key without the signo
pair_key_no_signo(entry) ==
  <<0, entry.sender, entry.receiver, entry.procId, entry.connId>>

pair_key(entry) ==
  <<entry.signo, entry.sender, entry.receiver, entry.procId, entry.connId>>

\* seconds + microseconds/1e6 in units of 1e-6: a double holds the sum of a
\* 32-bit seconds and a microseconds below 10^6 to better than 1e-6, so the
\* comparison of two such sums is that of the exact values
TimeOf(entry) == entry.seconds * UsecPerSec + entry.microseconds

\* is_pair with `sent <= received`
is_pair_not_strict(r, t) ==
  IF pair[r] = 0 THEN TimeOf(ev[t]) <= TimeOf(ev[r]) ELSE FALSE

\* is_pair without the test for an rx that is already claimed
is_pair_unclaimed_or_not(r, t) == TimeOf(ev[t]) < TimeOf(ev[r])

is_pair(r, t) ==
  IF pair[r] = 0 THEN TimeOf(ev[t]) < TimeOf(ev[r]) ELSE FALSE

IsSend(i) == ev[i].type = ITC_SEND
IsRecv(i) == ev[i].type = ITC_RECV

KeyIs(k, i) == pair_key(ev[i]) = k

\* find_pairs with the Sends taken latest first
FindPairsStartLatestFirst ==
  /\ pc = "sorted"
  /\ tx' = LET t == SelectSeq(data, IsSend)
           IN [k \in 1..Len(t) |-> t[Len(t) + 1 - k]]
  /\ LET rx == SelectSeq(data, IsRecv)
         rx_keys == {pair_key(ev[data[i]]) : i \in 1..Len(data)}
     IN rx_map' = [k \in rx_keys |-> SelectSeq(rx, LAMBDA i : KeyIs(k, i))]
  /\ txi' = 1
  /\ runs' = runs + 1
  /\ pc' = "pairing"
  /\ UNCHANGED <<ev, data, pair, shown>>
  /\ UNCHANGED <<argVars, fiVars, tailVars, fileVars>>

\* tx, rx, rx_keys and rx_map are built; the loop over tx starts
FindPairsStart ==
  /\ pc = "sorted"
  /\ tx' = SelectSeq(data, IsSend)
  /\ LET rx == SelectSeq(data, IsRecv)
         rx_keys == {pair_key(ev[data[i]]) : i \in 1..Len(data)}
     IN rx_map' = [k \in rx_keys |-> SelectSeq(rx, LAMBDA i : KeyIs(k, i))]
  /\ txi' = 1
  /\ runs' = runs + 1
  /\ pc' = "pairing"
  /\ UNCHANGED <<ev, data, pair, shown>>
  /\ UNCHANGED <<argVars, fiVars, tailVars, fileVars>>

\* possible_pairs with the candidates in reverse order
possible_pairs_reversed(entry) ==
  LET pp == SelectSeq(rx_map[pair_key(ev[entry])], LAMBDA i : is_pair(i, entry))
  IN [k \in 1..Len(pp) |-> pp[Len(pp) + 1 - k]]

\* line 251
possible_pairs(entry) ==
  SelectSeq(rx_map[pair_key(ev[entry])], LAMBDA i : is_pair(i, entry))

\* one iteration of `for entry in tx`
FindPairsStep ==
  /\ pc = "pairing"
  /\ txi <= Len(tx)
  /\ LET entry == tx[txi]
         pp == possible_pairs(entry)
     IN IF pp # <<>>
        THEN pair' = [pair EXCEPT ![entry] = pp[1], ![pp[1]] = entry]
        ELSE pair' = pair
  /\ txi' = txi + 1
  /\ UNCHANGED <<ev, data, pc, tx, rx_map, runs, shown>>
  /\ UNCHANGED <<argVars, fiVars, tailVars, fileVars>>

\* the loop is exhausted and find_pairs returns
FindPairsReturn ==
  /\ pc = "pairing"
  /\ txi > Len(tx)
  /\ pc' = "paired"
  /\ UNCHANGED <<ev, data, pair, tx, rx_map, txi, runs, shown>>
  /\ UNCHANGED <<argVars, fiVars, tailVars, fileVars>>

\* find_pairs(data) is called once more on the list the first call left
FindPairsAgain ==
  /\ pc = "paired"
  /\ runs = 1
  /\ pc' = "sorted"
  /\ UNCHANGED <<ev, data, pair, tx, rx_map, txi, runs, shown>>
  /\ UNCHANGED <<argVars, fiVars, tailVars, fileVars>>

----------------------------------------------------------------------------
(* Idle values of the variables a specification does not use *)

NoArgs ==
  /\ signal_filter = <<>>
  /\ mailbox_filter = <<>>
  /\ mailbox_filter2 = <<>>
  /\ dual = FALSE

NoFilterIds ==
  /\ fi_filter = <<>>
  /\ fi_idset = {}
  /\ fi_result = <<>>

NoTail ==
  /\ content = <<>>
  /\ previous_data = <<>>
  /\ previous = <<>>
  /\ entries = <<>>
  /\ printed = <<>>
  /\ stderr = {}
  /\ spc = "off"

NoMain ==
  /\ ev = <<>>
  /\ data = <<>>
  /\ pair = <<>>
  /\ pc = "off"
  /\ tx = <<>>
  /\ rx_map = <<>>
  /\ txi = 0
  /\ runs = 0
  /\ shown = <<>>

NoFile ==
  /\ file = <<>>
  /\ original = <<>>
  /\ written = <<>>
  /\ op = "off"
  /\ keep_zeros = FALSE
  /\ fpos = 0
  /\ chunk = <<>>
  /\ reads_at_end = 0
  /\ fpc = "off"
  /\ header = <<>>
  /\ result = <<>>
  /\ ferr = <<>>
  /\ queue = <<>>
  /\ decoded = <<>>

\* __main__ after `data = sorted(...)`: any time-sorted list of events
SortedData(Events, n) ==
  /\ ev \in [1..n -> Events]
  /\ IsTimeSorted(ev, n)
  /\ data = Iota(n)
  /\ pair = [i \in 1..n |-> 0]
  /\ pc = "sorted"
  /\ tx = <<>>
  /\ rx_map = <<>>
  /\ txi = 0
  /\ runs = 0
  /\ shown = <<>>

InitPairs ==
  /\ \E n \in 0..MaxEvents : SortedData(PairEvents, n)
  /\ NoArgs /\ NoFilterIds /\ NoTail /\ NoFile

NextPairs == FindPairsStart \/ FindPairsStep \/ FindPairsReturn

SpecPairs == InitPairs /\ [][NextPairs]_vars

NextRerun == NextPairs \/ FindPairsAgain

SpecRerun == InitPairs /\ [][NextRerun]_vars

----------------------------------------------------------------------------
(* filter_ids *)

\* Text is a sequence of one-character strings.
UpperCase == <<"A", "B", "C", "D", "E", "F", "G", "H", "I", "J", "K", "L", "M",
               "N", "O", "P", "Q", "R", "S", "T", "U", "V", "W", "X", "Y", "Z">>
LowerCase == <<"a", "b", "c", "d", "e", "f", "g", "h", "i", "j", "k", "l", "m",
               "n", "o", "p", "q", "r", "s", "t", "u", "v", "w", "x", "y", "z">>
DigitChars == <<"0", "1", "2", "3", "4", "5", "6", "7", "8", "9",
                "a", "b", "c", "d", "e", "f">>

\* re.IGNORECASE: letters are compared in one case
LowerOf == [i \in DOMAIN UpperCase |-> LowerCase[i]]
UpperIndex == [c \in {UpperCase[i] : i \in DOMAIN UpperCase} |->
                 CHOOSE i \in DOMAIN UpperCase : UpperCase[i] = c]

Lower(c) == IF c \in DOMAIN UpperIndex THEN LowerOf[UpperIndex[c]] ELSE c

DigitIndex == [c \in {DigitChars[i] : i \in DOMAIN DigitChars} |->
                 CHOOSE i \in DOMAIN DigitChars : DigitChars[i] = c]

DigitValue(c) == DigitIndex[Lower(c)] - 1

\* int(text, base)
RECURSIVE IntOf(_, _)
IntOf(text, base) ==
  IF text = <<>> THEN 0
  ELSE IntOf(SubSeq(text, 1, Len(text) - 1), base) * base
       + DigitValue(text[Len(text)])

Unknown == <<"<", "u", "n", "k", "n", "o", "w", "n", ">">>

\* A name pattern of the forms lit, ^lit, lit$ and ^lit$ (lit: literal text):
\* expr.search(name) of the compiled, case-insensitive pattern.
Search(pat, name) ==
  \E off \in 0..(Len(name) - Len(pat.lit)) :
    /\ pat.start => off = 0
    /\ pat.end => off + Len(pat.lit) = Len(name)
    /\ \A i \in 1..Len(pat.lit) : Lower(name[off + i]) = Lower(pat.lit[i])

\* One match of the token regex: ex is the prefix group ("" when absent), kind
\* says which of the groups dec, hex and str matched, a and b are the digits
\* of dec/dec2 or hex/hex2 (b empty when absent), pat is the str group.
NoPat == [start |-> FALSE, end |-> FALSE, lit |-> <<>>]
DecTok(ex, a, b) == [ex |-> ex, kind |-> "dec", a |-> a, b |-> b, pat |-> NoPat]
HexTok(ex, a, b) == [ex |-> ex, kind |-> "hex", a |-> a, b |-> b, pat |-> NoPat]
StrTok(ex, start, lit, end) ==
  [ex |-> ex, kind |-> "str", a |-> <<>>, b |-> <<>>,
   pat |-> [start |-> start, end |-> end, lit |-> lit]]

Lo(tok) == IF tok.kind = "dec" THEN IntOf(tok.a, 10) ELSE IntOf(tok.a, 16)

Hi(tok) ==
  IF tok.b = <<>> THEN Lo(tok)
  ELSE IF tok.kind = "dec" THEN IntOf(tok.b, 10) ELSE IntOf(tok.b, 16)

\* the lambda `matcher` of the token
matcher(tok, idmap, s) ==
  IF tok.kind = "str"
  THEN Search(tok.pat, IF s \in DOMAIN idmap THEN idmap[s] ELSE Unknown)
  ELSE s >= Lo(tok) /\ s <= Hi(tok)

\* `selected` before the token is applied, with every first token resetting it
FirstTokenAlwaysResets(matchNum, tok, selected) ==
  IF matchNum = 1 THEN {} ELSE selected

\* `selected` before the token is applied: lines 465-466
FirstToken(matchNum, tok, selected) ==
  IF matchNum = 1 /\ tok.ex # "-" THEN {} ELSE selected

\* lines 484-490 with '~' taken as a union
ApplyTokenNoIntersection(tok, selected, unselected, idset, idmap) ==
  IF tok.ex = "-"
  THEN <<selected \ {s \in selected : matcher(tok, idmap, s)},
         unselected \cup {s \in idset : matcher(tok, idmap, s)}>>
  ELSE <<selected \cup {s \in idset : matcher(tok, idmap, s)}, unselected>>

\* lines 484-490: the token's update of (selected, unselected)
ApplyToken(tok, selected, unselected, idset, idmap) ==
  IF tok.ex = "-"
  THEN <<selected \ {s \in selected : matcher(tok, idmap, s)},
         unselected \cup {s \in idset : matcher(tok, idmap, s)}>>
  ELSE IF tok.ex = "~"
  THEN <<{s \in selected : matcher(tok, idmap, s)}, unselected>>
  ELSE <<selected \cup {s \in idset : matcher(tok, idmap, s)}, unselected>>

\* the loop over re.finditer, from match number matchNum on
RECURSIVE FilterLoop(_, _, _, _, _, _)
FilterLoop(filter, matchNum, selected, unselected, idset, idmap) ==
  IF matchNum > Len(filter) THEN <<selected, unselected>>
  ELSE LET tok == filter[matchNum]
           r == ApplyToken(tok, FirstToken(matchNum, tok, selected),
                           unselected, idset, idmap)
       IN FilterLoop(filter, matchNum + 1, r[1], r[2], idset, idmap)

filter_ids(filter, idset, idmap) ==
  IF filter = <<>> THEN <<idset, {}>>
  ELSE FilterLoop(filter, 1, idset, {}, idset, idmap)

\* Inputs of filter_ids called alone: the tokens cfm$, 0x17000-0x17fff and
\* 0x17a34 under each prefix, over the subsets of four signal numbers of
\* which 0x17000 has a name.
Prefixes == {"", "-", "~"}

FiTokens ==
  {StrTok(ex, FALSE, <<"c", "f", "m">>, TRUE) : ex \in Prefixes}
  \cup {HexTok(ex, <<"1", "7", "0", "0", "0">>, <<"1", "7", "f", "f", "f">>) :
          ex \in Prefixes}
  \cup {HexTok(ex, <<"1", "7", "a", "3", "4">>, <<>>) : ex \in Prefixes}

FiUniverse == {94208, 94209, 96820, 98304}

FiNames == (94208 :> <<"F", "O", "O", "_", "C", "F", "M">>)

SeqsUpTo(S, n) == UNION {[1..k -> S] : k \in 0..n}

InitFilterIds ==
  /\ fi_filter \in SeqsUpTo(FiTokens, MaxTokens)
  /\ fi_idset \in SUBSET FiUniverse
  /\ fi_result = <<>>
  /\ NoMain /\ NoArgs /\ NoTail /\ NoFile

CallFilterIds ==
  /\ fi_result = <<>>
  /\ fi_result' = <<filter_ids(fi_filter, fi_idset, FiNames)>>
  /\ UNCHANGED <<fi_filter, fi_idset>>
  /\ UNCHANGED <<pairVars, argVars, tailVars, fileVars>>

SpecFilterIds == InitFilterIds /\ [][CallFilterIds]_vars

----------------------------------------------------------------------------
(* __main__: sort, find_pairs, then the filters of the command line *)

get_all_boxes(d) ==
  {ev[d[i]].sender : i \in 1..Len(d)} \cup {ev[d[i]].receiver : i \in 1..Len(d)}

get_all_signals(d) == {ev[d[i]].signo : i \in 1..Len(d)}

\* the name tables read from the --mailboxes and --signals files
mailboxes == (1 :> <<"a", "l", "p", "h", "a">>) @@ (2 :> <<"B", "e", "t", "a">>)

signals ==
  (10 :> <<"P", "I", "N", "G", "_", "R", "E", "Q">>)
  @@ (11 :> <<"P", "I", "N", "G", "_", "C", "F", "M">>)

\* lines 662-664 without the two tests against exm
KeepNonColonNoExcluded(d, alls, allm, exm) ==
  /\ ev[d].signo \in alls
  /\ (ev[d].sender \in allm \/ ev[d].receiver \in allm)

\* the condition of the comprehension of lines 662-664
KeepNonColon(d, alls, allm, exm) ==
  /\ ev[d].signo \in alls
  /\ (ev[d].sender \in allm \/ ev[d].receiver \in allm)
  /\ ev[d].sender \notin exm /\ ev[d].receiver \notin exm

KeepColonOneWay(d, alls, allm1, allm2) ==
  /\ ev[d].signo \in alls
  /\ ev[d].sender \in allm1 /\ ev[d].receiver \in allm2

\* the condition of the comprehension of lines 657-659
KeepColon(d, alls, allm1, allm2) ==
  /\ ev[d].signo \in alls
  /\ \/ (ev[d].sender \in allm1 /\ ev[d].receiver \in allm2)
     \/ (ev[d].sender \in allm2 /\ ev[d].receiver \in allm1)

\* args.mailbox_filter is a non-empty string
MailboxFilterGiven == dual \/ mailbox_filter # <<>>

FilteredDualExcluded(d) ==
  LET alls == filter_ids(signal_filter, get_all_signals(d), signals)[1]
  IN IF dual
     THEN LET m1 == filter_ids(mailbox_filter, get_all_boxes(d), mailboxes)
              m2 == filter_ids(mailbox_filter2, get_all_boxes(d), mailboxes)
          IN SelectSeq(d, LAMBDA i : /\ KeepColon(i, alls, m1[1], m2[1])
                                     /\ ev[i].sender \notin m1[2] \cup m2[2]
                                     /\ ev[i].receiver \notin m1[2] \cup m2[2])
     ELSE LET m == filter_ids(mailbox_filter, get_all_boxes(d), mailboxes)
          IN SelectSeq(d, LAMBDA i : KeepNonColon(i, alls, m[1], m[2]))

\* lines 651-664: the comprehension chosen by the form of --mailbox-filter
Filtered(d) ==
  LET alls == filter_ids(signal_filter, get_all_signals(d), signals)[1]
  IN IF dual
     THEN LET allm1 == filter_ids(mailbox_filter, get_all_boxes(d), mailboxes)[1]
              allm2 == filter_ids(mailbox_filter2, get_all_boxes(d), mailboxes)[1]
          IN SelectSeq(d, LAMBDA i : KeepColon(i, alls, allm1, allm2))
     ELSE LET m == filter_ids(mailbox_filter, get_all_boxes(d), mailboxes)
          IN SelectSeq(d, LAMBDA i : KeepNonColon(i, alls, m[1], m[2]))

\* lines 651-667: the filters are applied; with nothing left the run ends
ApplyFilters ==
  /\ pc = "paired"
  /\ IF signal_filter # <<>> \/ MailboxFilterGiven
     THEN /\ data' = Filtered(data)
          /\ pc' = IF Len(data') = 0 THEN "exit" ELSE "filtered"
     ELSE /\ data' = data
          /\ pc' = "filtered"
  /\ UNCHANGED <<ev, pair, tx, rx_map, txi, runs, shown>>
  /\ UNCHANGED <<argVars, fiVars, tailVars, fileVars>>

\* events of the runs with filters: mailboxes 1, 2 and 3, signals 10 and 11
MainEvents ==
  {Event(t, k[1], k[2], k[3], 0, sec, 0) :
     t \in {ITC_SEND, ITC_RECV},
     k \in {<<1, 2, 10>>, <<1, 2, 11>>, <<2, 3, 10>>, <<3, 1, 10>>},
     sec \in {5, 6}}

\* --mailbox-filter without ':': not given, "1", "-2", "1, -2", "2-3, ~^b",
\* "-^alpha$", "a$, -3"
MailboxFilters ==
  {<<>>,
   <<DecTok("", <<"1">>, <<>>)>>,
   <<DecTok("-", <<"2">>, <<>>)>>,
   <<DecTok("", <<"1">>, <<>>), DecTok("-", <<"2">>, <<>>)>>,
   <<DecTok("", <<"2">>, <<"3">>), StrTok("~", TRUE, <<"b">>, FALSE)>>,
   <<StrTok("-", TRUE, <<"a", "l", "p", "h", "a">>, TRUE)>>,
   <<StrTok("", FALSE, <<"a">>, TRUE), DecTok("-", <<"3">>, <<>>)>>}

\* the halves of --mailbox-filter with ':': "", "1", "-2"
MailboxHalves ==
  {<<>>, <<DecTok("", <<"1">>, <<>>)>>, <<DecTok("-", <<"2">>, <<>>)>>}

\* --signal-filter: not given, "0xa", "-cfm$"
SignalFilters ==
  {<<>>,
   <<HexTok("", <<"a">>, <<>>)>>,
   <<StrTok("-", FALSE, <<"c", "f", "m">>, TRUE)>>}

InitMain ==
  /\ \E n \in 0..MaxMainEvents : SortedData(MainEvents, n)
  /\ signal_filter \in SignalFilters
  /\ dual \in BOOLEAN
  /\ IF dual
     THEN mailbox_filter \in MailboxHalves /\ mailbox_filter2 \in MailboxHalves
     ELSE mailbox_filter \in MailboxFilters /\ mailbox_filter2 = <<>>
  /\ NoFilterIds /\ NoTail /\ NoFile

NextMain == NextPairs \/ ApplyFilters

SpecMain == InitMain /\ [][NextMain]_vars

----------------------------------------------------------------------------
(* __main__ in batch mode: sort, pairing, filters, presenter *)

KeyOf(i) == <<ev[i].seconds, ev[i].microseconds>>

\* comparison of the key tuples of two events
KeyLess(i, j) ==
  \/ KeyOf(i)[1] < KeyOf(j)[1]
  \/ KeyOf(i)[1] = KeyOf(j)[1] /\ KeyOf(i)[2] < KeyOf(j)[2]

RECURSIVE InsertUnstable(_, _)
InsertUnstable(x, s) ==
  IF s = <<>> THEN <<x>>
  ELSE IF KeyLess(Head(s), x) THEN <<Head(s)>> \o InsertUnstable(x, Tail(s))
  ELSE <<x>> \o s

\* x is put behind every element of s whose key is not greater
RECURSIVE Insert(_, _)
Insert(x, s) ==
  IF s = <<>> THEN <<x>>
  ELSE IF KeyLess(x, Head(s)) THEN <<x>> \o s
  ELSE <<Head(s)>> \o Insert(x, Tail(s))

RECURSIVE sorted_ties_reversed(_)
sorted_ties_reversed(d) ==
  IF d = <<>> THEN <<>>
  ELSE InsertUnstable(d[Len(d)], sorted_ties_reversed(SubSeq(d, 1, Len(d) - 1)))

\* sorted(data, key = ...): ascending by key, equal keys in their input order
RECURSIVE sorted(_)
sorted(d) ==
  IF d = <<>> THEN <<>>
  ELSE Insert(d[Len(d)], sorted(SubSeq(d, 1, Len(d) - 1)))

\* line 630
SortData ==
  /\ pc = "decoded"
  /\ data' = sorted(data)
  /\ pc' = "sorted"
  /\ UNCHANGED <<ev, pair, tx, rx_map, txi, runs, shown>>
  /\ UNCHANGED <<argVars, fiVars, tailVars, fileVars>>

filter_duplicates_unpaired(d) ==
  SelectSeq(d, LAMBDA i : pair[i] = 0)

\* line 259
filter_duplicates(d) ==
  SelectSeq(d, LAMBDA i : ev[i].type = ITC_SEND \/ pair[i] = 0)

\* lines 669-681: print_uml, print_summary or print_ship_entries is called
\* and starts with entries = filter_duplicates(entries)
Present ==
  /\ pc = "filtered"
  /\ shown' = <<filter_duplicates(data)>>
  /\ pc' = "presented"
  /\ UNCHANGED <<ev, data, pair, tx, rx_map, txi, runs>>
  /\ UNCHANGED <<argVars, fiVars, tailVars, fileVars>>

\* events of the batch runs: one key per signo, in any order of time
BatchEvents ==
  {Event(t, 1, 2, s, 0, st[1], st[2]) :
     t \in {ITC_SEND, ITC_RECV}, s \in {10, 11}, st \in Stamps}

\* __main__ after the loop of lines 623-628: the events of all the files in
\* the order they were read, not yet sorted
InitBatch ==
  /\ \E n \in 0..MaxBatchEvents :
       /\ ev \in [1..n -> BatchEvents]
       /\ data = Iota(n)
       /\ pair = [i \in 1..n |-> 0]
  /\ pc = "decoded"
  /\ tx = <<>>
  /\ rx_map = <<>>
  /\ txi = 0
  /\ runs = 0
  /\ shown = <<>>
  /\ signal_filter \in {<<>>, <<HexTok("", <<"a">>, <<>>)>>}
  /\ mailbox_filter = <<>>
  /\ mailbox_filter2 = <<>>
  /\ dual = FALSE
  /\ NoFilterIds /\ NoTail /\ NoFile

NextBatch == SortData \/ NextPairs \/ ApplyFilters \/ Present

SpecBatch == InitBatch /\ [][NextBatch]_vars

\* the runs with filters of SpecMain, followed up to the presenter
NextPresent == NextMain \/ Present

SpecPresent == InitMain /\ [][NextPresent]_vars

----------------------------------------------------------------------------
(* Ship files: find_ship_header, read_binary, clear_file *)

\* b'SHIP'
Magic == <<83, 72, 73, 80>>

Repeat(b, n) == [i \in 1..n |-> b]

Reverse(b) == [i \in 1..Len(b) |-> b[Len(b) + 1 - i]]

\* f.read(n) at position pos: at most n bytes, fewer at the end of the file
Read(f, pos, n) ==
  SubSeq(f, pos + 1, IF pos + n <= Len(f) THEN pos + n ELSE Len(f))

\* f.read() at position pos: the rest of the file
ReadAll(f, pos) == SubSeq(f, pos + 1, Len(f))

\* f.write(b) at position pos
Write(f, pos, b) ==
  [i \in 1..(IF pos + Len(b) > Len(f) THEN pos + Len(b) ELSE Len(f)) |->
     IF i > pos /\ i <= pos + Len(b) THEN b[i - pos] ELSE f[i]]

\* the bytes of one item in little-endian order
LittleEndian(endian, b) == IF endian = "<" THEN b ELSE Reverse(b)

RECURSIVE LeValue(_)
LeValue(b) == IF b = <<>> THEN 0 ELSE b[1] + 256 * LeValue(Tail(b))

\* struct codes 'H' and 'I': unsigned
UnpackU(endian, b) == LeValue(LittleEndian(endian, b))

\* struct code 'i': two's complement
UnpackI(endian, b) ==
  LET le == LittleEndian(endian, b)
  IN IF le[Len(le)] >= 128
     THEN -1 - LeValue([i \in 1..Len(le) |-> 255 - le[i]])
     ELSE LeValue(le)

RECURSIVE LeBytes(_, _)
LeBytes(v, n) == IF n = 0 THEN <<>> ELSE <<v % 256>> \o LeBytes(v \div 256, n - 1)

PackU(endian, v, n) == LittleEndian(endian, LeBytes(v, n))

PackI(endian, v, n) ==
  IF v < 0
  THEN LittleEndian(endian, [i \in 1..n |-> 255 - LeBytes(-1 - v, n)[i]])
  ELSE PackU(endian, v, n)

\* the struct formats of lines 71 and 79, one code per item ('4s' is "s")
Format1 == <<"H", "x", "x", "I", "I", "I", "i", "i", "I", "I">>
Format2 == <<"i", "i", "I", "I", "I", "I", "I", "s", "s">>

CodeSize(c) == CASE c = "H" -> 2 [] c = "x" -> 1 [] OTHER -> 4

RECURSIVE calcsize(_)
calcsize(fmt) == IF fmt = <<>> THEN 0 ELSE CodeSize(Head(fmt)) + calcsize(Tail(fmt))

\* struct.unpack(endian + fmt, b): the tuple of the items, pad bytes skipped
RECURSIVE unpack(_, _, _)
unpack(endian, fmt, b) ==
  IF fmt = <<>> THEN <<>>
  ELSE LET c == Head(fmt)
           item == SubSeq(b, 1, CodeSize(c))
           rest == unpack(endian, Tail(fmt), SubSeq(b, CodeSize(c) + 1, Len(b)))
       IN CASE c = "x" -> rest
            [] c = "s" -> <<item>> \o rest
            [] c = "i" -> <<UnpackI(endian, item)>> \o rest
            [] OTHER -> <<UnpackU(endian, item)>> \o rest

\* struct.iter_unpack on a buffer of a whole number of records
iter_unpack(endian, fmt, b) ==
  [k \in 1..(Len(b) \div calcsize(fmt)) |->
     unpack(endian, fmt, SubSeq(b, (k - 1) * calcsize(fmt) + 1, k * calcsize(fmt)))]

\* the dict of lines 74-76; d[k + 1] is data[k]
Entry1(d) ==
  [type |-> d[1], source |-> d[2], sender |-> d[3], receiver |-> d[4],
   seconds |-> d[5], microseconds |-> d[6], signo |-> d[7],
   procId |-> <<>>, connId |-> <<>>]

\* the dict of lines 82-85
Entry2(d) ==
  [type |-> d[4], source |-> d[3], sender |-> d[5], receiver |-> d[6],
   seconds |-> d[1], microseconds |-> d[2], signo |-> d[7],
   procId |-> d[8], connId |-> d[9]]

KeepRecordNonZero(seconds, kz) == seconds # 0

\* the condition of lines 73 and 81
KeepRecord(seconds, kz) == seconds # 0 \/ kz

\* lines 70-85: the entries of the buffer b
DecodeRecords(endian, version, b, kz) ==
  IF version = 1
  THEN LET all == iter_unpack(endian, Format1, b)
           kept == SelectSeq(all, LAMBDA d : KeepRecord(d[5], kz))
       IN [k \in 1..Len(kept) |-> Entry1(kept[k])]
  ELSE LET all == iter_unpack(endian, Format2, b)
           kept == SelectSeq(all, LAMBDA d : KeepRecord(d[1], kz))
       IN [k \in 1..Len(kept) |-> Entry2(kept[k])]

NotValid == "is not a valid ship file"
StructError == "struct.error"

\* lines 38-40: one f.read(4) of find_ship_header and the test of the loop;
\* at the end of the file the read returns b'', which is not the magic, and
\* the loop goes on (followed here for MaxReadsAtEnd reads)
ReadMagic ==
  /\ fpc \in {"open", "scan"}
  /\ chunk # Magic
  /\ reads_at_end < MaxReadsAtEnd
  /\ chunk' = Read(file, fpos, 4)
  /\ fpos' = fpos + Len(chunk')
  /\ reads_at_end' = IF chunk' = <<>> THEN reads_at_end + 1 ELSE reads_at_end
  /\ fpc' = "scan"
  /\ UNCHANGED <<file, original, written, op, keep_zeros, header, result, ferr,
                 queue, decoded>>
  /\ UNCHANGED <<pairVars, argVars, fiVars, tailVars>>

\* lines 42-58: the byte order mark and the version; struct.unpack raises
\* on fewer than 2 bytes
ReadHeader ==
  /\ fpc = "scan"
  /\ chunk = Magic
  /\ LET b == Read(file, fpos, 2)
         v == Read(file, fpos + 2, 2)
         bom == UnpackU("<", b)
         endian == IF bom = 65279 \/ bom = 1 THEN "<" ELSE ">"
         version == UnpackU(endian, v)
     IN IF Len(b) < 2 \/ Len(v) < 2
        THEN /\ fpos' = fpos + Len(b) + (IF Len(b) < 2 THEN 0 ELSE Len(v))
             /\ ferr' = <<StructError>>
             /\ fpc' = "raised"
             /\ header' = header
        ELSE /\ fpos' = fpos + 4
             /\ header' = IF version = 1 \/ version = 0 THEN <<<<TRUE, endian, 1>>>>
                          ELSE IF version = 2 THEN <<<<TRUE, endian, 2>>>>
                          ELSE <<<<FALSE, endian, 0>>>>
             /\ fpc' = "header"
             /\ ferr' = ferr
  /\ UNCHANGED <<file, original, written, op, keep_zeros, chunk, reads_at_end,
                 result, queue, decoded>>
  /\ UNCHANGED <<pairVars, argVars, fiVars, tailVars>>

\* lines 64-66 and 92-94
InvalidFile ==
  /\ fpc = "header"
  /\ ~header[1][1]
  /\ ferr' = <<NotValid>>
  /\ fpc' = "returned"
  /\ UNCHANGED <<file, original, written, op, keep_zeros, fpos, chunk,
                 reads_at_end, header, result, queue, decoded>>
  /\ UNCHANGED <<pairVars, argVars, fiVars, tailVars>>

\* lines 68-87: struct.iter_unpack raises on a buffer that is not a whole
\* number of records
ReadRecords ==
  /\ fpc = "header"
  /\ op = "read"
  /\ header[1][1]
  /\ LET b == ReadAll(file, fpos)
         size == IF header[1][3] = 1 THEN calcsize(Format1) ELSE calcsize(Format2)
     IN /\ fpos' = Len(file)
        /\ IF Len(b) % size # 0
           THEN /\ ferr' = <<StructError>>
                /\ fpc' = "raised"
                /\ result' = result
           ELSE /\ result' = DecodeRecords(header[1][2], header[1][3], b, keep_zeros)
                /\ fpc' = "returned"
                /\ ferr' = ferr
  /\ UNCHANGED <<file, original, written, op, keep_zeros, chunk, reads_at_end,
                 header, queue, decoded>>
  /\ UNCHANGED <<pairVars, argVars, fiVars, tailVars>>

ClearWriteWholeSize ==
  /\ fpc = "header"
  /\ op = "clear"
  /\ header[1][1]
  /\ file' = Write(file, fpos, Repeat(0, Len(file)))
  /\ fpos' = fpos + Len(file)
  /\ fpc' = "returned"
  /\ UNCHANGED <<original, written, op, keep_zeros, chunk, reads_at_end, header,
                 result, ferr, queue, decoded>>
  /\ UNCHANGED <<pairVars, argVars, fiVars, tailVars>>

\* lines 96-98
ClearWrite ==
  /\ fpc = "header"
  /\ op = "clear"
  /\ header[1][1]
  /\ LET size == Len(file) - fpos
     IN /\ file' = Write(file, fpos, Repeat(0, size))
        /\ fpos' = fpos + size
  /\ fpc' = "returned"
  /\ UNCHANGED <<original, written, op, keep_zeros, chunk, reads_at_end, header,
                 result, ferr, queue, decoded>>
  /\ UNCHANGED <<pairVars, argVars, fiVars, tailVars>>

\* lines 623-628: data.extend(read_binary(f, False)), then the next file
NextFile ==
  /\ fpc = "returned"
  /\ op = "read"
  /\ ~keep_zeros
  /\ decoded' = decoded \o result
  /\ IF queue = <<>>
     THEN /\ fpc' = "done"
          /\ UNCHANGED <<file, original, written, fpos, chunk, reads_at_end,
                         header, result, ferr, queue>>
     ELSE /\ file' = Head(queue).bytes
          /\ original' = Head(queue).bytes
          /\ written' = Head(queue).written
          /\ queue' = Tail(queue)
          /\ fpos' = 0
          /\ chunk' = <<>>
          /\ reads_at_end' = 0
          /\ header' = <<>>
          /\ result' = <<>>
          /\ ferr' = ferr
          /\ fpc' = "open"
  /\ UNCHANGED <<op, keep_zeros>>
  /\ UNCHANGED <<pairVars, argVars, fiVars, tailVars>>

\* a record as a writer holds it
Record(type, sender, receiver, signo, seconds, microseconds) ==
  [type |-> type, source |-> 7, sender |-> sender, receiver |-> receiver,
   seconds |-> seconds, microseconds |-> microseconds, signo |-> signo,
   procId |-> <<1, 2, 3, 4>>, connId |-> <<5, 6, 7, 8>>]

\* an unwritten slot with a stale microseconds field, a Send, and a Receive
\* whose seconds field needs two bytes
FileRecords ==
  {Record(0, 0, 0, 0, 0, 7), Record(0, 1, 2, 10, 5, 9),
   Record(1, 1, 2, 10, 262, -1)}

\* the bytes of a record in the layouts 'HxxIIIiiII' and 'iiIIIII4s4s'
Encode(endian, version, r) ==
  IF version = 1
  THEN PackU(endian, r.type, 2) \o <<0, 0>> \o PackU(endian, r.source, 4)
       \o PackU(endian, r.sender, 4) \o PackU(endian, r.receiver, 4)
       \o PackI(endian, r.seconds, 4) \o PackI(endian, r.microseconds, 4)
       \o PackU(endian, r.signo, 4) \o PackU(endian, 0, 4)
  ELSE PackI(endian, r.seconds, 4) \o PackI(endian, r.microseconds, 4)
       \o PackU(endian, r.source, 4) \o PackU(endian, r.type, 4)
       \o PackU(endian, r.sender, 4) \o PackU(endian, r.receiver, 4)
       \o PackU(endian, r.signo, 4) \o r.procId \o r.connId

RECURSIVE EncodeAll(_, _, _)
EncodeAll(endian, version, rs) ==
  IF rs = <<>> THEN <<>>
  ELSE Encode(endian, version, Head(rs)) \o EncodeAll(endian, version, Tail(rs))

\* the headers writers produce: the mark 0xFEFF in the writer's byte order
\* and version 1, 2 or 3, and the legacy little-endian header 01 00 00 00
Writers ==
  {[bom |-> <<255, 254>>, ver |-> <<v, 0>>, endian |-> "<", version |-> v] :
     v \in 1..3}
  \cup
  {[bom |-> <<254, 255>>, ver |-> <<0, v>>, endian |-> ">", version |-> v] :
     v \in 1..3}
  \cup
  {[bom |-> <<1, 0>>, ver |-> <<0, 0>>, endian |-> "<", version |-> 1]}

\* leading bytes that are not part of a magic
Lead(n) == Repeat(88, n)

\* a file: leading bytes, the header, the records, and trailing bytes that
\* are less than a record
ShipFile(n, w, rs, t) ==
  Lead(n) \o Magic \o w.bom \o w.ver \o EncodeAll(w.endian, w.version, rs)
  \o Repeat(1, t)

\* a file that ends inside the header
CutFile(n, w, c) == Lead(n) \o Magic \o SubSeq(w.bom \o w.ver, 1, c)

\* the second input file of a batch run: one Send of a little-endian v1 file
SecondFile ==
  LET w == [bom |-> <<255, 254>>, ver |-> <<1, 0>>, endian |-> "<", version |-> 1]
      rs == <<Record(0, 2, 3, 11, 6, 0)>>
  IN [bytes |-> ShipFile(0, w, rs, 0), written |-> rs]

\* read_binary(path, keep_zeros) or clear_file(path) is called on a file
InitFile ==
  /\ \E n \in 0..MaxLead :
       \/ file = Lead(n) /\ written = <<>>
       \/ \E w \in Writers, c \in 0..3 : file = CutFile(n, w, c) /\ written = <<>>
       \/ \E w \in Writers, t \in 0..MaxTrail :
             /\ written \in SeqsUpTo(FileRecords, MaxRecords)
             /\ file = ShipFile(n, w, written, t)
  /\ original = file
  /\ \/ op = "clear" /\ keep_zeros = FALSE /\ queue = <<>>
     \/ op = "read" /\ keep_zeros = TRUE /\ queue = <<>>
     \/ op = "read" /\ keep_zeros = FALSE /\ queue \in {<<>>, <<SecondFile>>}
  /\ fpos = 0
  /\ chunk = <<>>
  /\ reads_at_end = 0
  /\ fpc = "open"
  /\ header = <<>>
  /\ result = <<>>
  /\ ferr = <<>>
  /\ decoded = <<>>
  /\ NoMain /\ NoArgs /\ NoFilterIds /\ NoTail

NextFileOps ==
  ReadMagic \/ ReadHeader \/ InvalidFile \/ ReadRecords \/ ClearWrite \/ NextFile

SpecFile == InitFile /\ [][NextFileOps]_vars

----------------------------------------------------------------------------
(* stream_files: one input file f *)

\* a ring slot as read_binary(f, True) returns it
Slot(seconds, signo) == Event(ITC_SEND, 1, 2, signo, 0, seconds, 0)

\* an unwritten slot and two written ones
SlotValues == {Slot(0, 0), Slot(5, 10), Slot(6, 11)}

Contents == SeqsUpTo(SlotValues, MaxSlots)

\* lines 562-577 with an unwritten slot not counted as an overlap
ScanEntryZeroNoOverlap(st, i, entry, prev) ==
  IF entry.seconds # 0 /\ (i > Len(prev) \/ prev[i] # entry)
  THEN [st EXCEPT !.printed = Append(@, entry)]
  ELSE IF entry.seconds = 0
  THEN [st EXCEPT !.truncated = FALSE]
  ELSE [st EXCEPT !.overlaps = TRUE]

\* lines 562-577 printing every entry that differs from the previous one
ScanEntryPrintsZeros(st, i, entry, prev) ==
  IF i > Len(prev) \/ prev[i] # entry
  THEN [st EXCEPT !.printed = Append(@, entry)]
  ELSE IF entry.seconds = 0
  THEN [st EXCEPT !.truncated = FALSE, !.overlaps = TRUE]
  ELSE [st EXCEPT !.overlaps = TRUE]

\* lines 562-577 with an unchanged entry not counted as an overlap
ScanEntryUnchangedNoOverlap(st, i, entry, prev) ==
  IF entry.seconds # 0 /\ (i > Len(prev) \/ prev[i] # entry)
  THEN [st EXCEPT !.printed = Append(@, entry)]
  ELSE IF entry.seconds = 0
  THEN [st EXCEPT !.truncated = FALSE, !.overlaps = TRUE]
  ELSE st

\* lines 562-577: the body of `while i < len(entries)` for entries[i], i
\* counted from 1; st holds printed (the records printed), truncated, overlaps
ScanEntry(st, i, entry, prev) ==
  IF entry.seconds # 0 /\ (i > Len(prev) \/ prev[i] # entry)
  THEN [st EXCEPT !.printed = Append(@, entry)]
  ELSE IF entry.seconds = 0
  THEN [st EXCEPT !.truncated = FALSE, !.overlaps = TRUE]
  ELSE [st EXCEPT !.overlaps = TRUE]

\* lines 557-578: the loop over the entries, from index i on
RECURSIVE Scan(_, _, _, _)
Scan(st, i, ents, prev) ==
  IF i > Len(ents) THEN st
  ELSE Scan(ScanEntry(st, i, ents[i], prev), i + 1, ents, prev)

\* lines 580-583 with the initial-loss report made for a ring not yet full
DiagnosticsNotFull(st, prev) ==
  (IF ~st.overlaps /\ Len(prev) # 0 THEN {"lost"} ELSE {})
  \cup (IF Len(prev) = 0 /\ ~st.truncated THEN {"initial"} ELSE {})

\* lines 580-583: "Signals may have been lost from input" and "Initial
\* signals may have been lost from input"
Diagnostics(st, prev) ==
  (IF ~st.overlaps /\ Len(prev) # 0 THEN {"lost"} ELSE {})
  \cup (IF Len(prev) = 0 /\ st.truncated THEN {"initial"} ELSE {})

\* lines 535-542: the snapshot of a file found when stream_files starts
InitialSnapshot ==
  /\ spc = "start"
  /\ previous_data' = content
  /\ spc' = "idle"
  /\ UNCHANGED <<content, previous, entries, printed, stderr>>
  /\ UNCHANGED <<pairVars, argVars, fiVars, fileVars>>

\* a pass of the loop body that leaves the stored snapshot as it was
PollKeepsSnapshot ==
  /\ spc \in {"idle", "first", "polled"}
  /\ content # <<>>
  /\ LET prev == IF previous_data # <<>> THEN previous_data[1] ELSE <<>>
         st == Scan([printed |-> <<>>, truncated |-> TRUE, overlaps |-> FALSE],
                    1, content[1], prev)
     IN /\ previous' = prev
        /\ entries' = content[1]
        /\ printed' = st.printed
        /\ stderr' = (IF previous_data = <<>> THEN {"detected"} ELSE {})
                     \cup Diagnostics(st, prev)
        /\ previous_data' = previous_data
  /\ spc' = IF spc = "idle" THEN "first" ELSE "polled"
  /\ UNCHANGED content
  /\ UNCHANGED <<pairVars, argVars, fiVars, fileVars>>

\* lines 545-585: one pass of the loop body for the file, which exists
Poll ==
  /\ spc \in {"idle", "first", "polled"}
  /\ content # <<>>
  /\ LET prev == IF previous_data # <<>> THEN previous_data[1] ELSE <<>>
         st == Scan([printed |-> <<>>, truncated |-> TRUE, overlaps |-> FALSE],
                    1, content[1], prev)
     IN /\ previous' = prev
        /\ entries' = content[1]
        /\ printed' = st.printed
        /\ stderr' = (IF previous_data = <<>> THEN {"detected"} ELSE {})
                     \cup Diagnostics(st, prev)
        /\ previous_data' = content
  /\ spc' = IF spc = "idle" THEN "first" ELSE "polled"
  /\ UNCHANGED content
  /\ UNCHANGED <<pairVars, argVars, fiVars, fileVars>>

\* the file is created, or its producer or clear_file rewrites slots; a pass
\* of the loop while the file does not exist changes nothing
FileChanges ==
  /\ spc # "off"
  /\ content' \in {<<c>> : c \in Contents} \ {content}
  /\ UNCHANGED <<previous_data, previous, entries, printed, stderr, spc>>
  /\ UNCHANGED <<pairVars, argVars, fiVars, fileVars>>

InitTail ==
  /\ content \in {<<c>> : c \in Contents} \cup {<<>>}
  /\ previous_data = <<>>
  /\ previous = <<>>
  /\ entries = <<>>
  /\ printed = <<>>
  /\ stderr = {}
  /\ spc = "start"
  /\ NoMain /\ NoArgs /\ NoFilterIds /\ NoFile

NextTail == InitialSnapshot \/ Poll \/ FileChanges

SpecTail == InitTail /\ [][NextTail]_vars

----------------------------------------------------------------------------
(* Properties of find_pairs *)

Ids == DOMAIN ev

Linked(a) == pair[a] # 0

SameKeyFields(a, b) ==
  /\ ev[a].signo = ev[b].signo
  /\ ev[a].sender = ev[b].sender
  /\ ev[a].receiver = ev[b].receiver
  /\ ev[a].procId = ev[b].procId
  /\ ev[a].connId = ev[b].connId

SameStamp(a, b) ==
  ev[a].seconds = ev[b].seconds /\ ev[a].microseconds = ev[b].microseconds

\* (seconds, microseconds) of a is strictly before that of b
StrictlyEarlier(a, b) ==
  \/ ev[a].seconds < ev[b].seconds
  \/ ev[a].seconds = ev[b].seconds /\ ev[a].microseconds < ev[b].microseconds

\* C1: every link joins one Send and one Receive with equal
\* (signo, sender, receiver, procId, connId) and the Send's timestamp is
\* strictly earlier than the Receive's; equal timestamps are never linked.
C1_LinksAreLegal ==
  \A a \in Ids :
    Linked(a) =>
      LET b == pair[a]
          s == IF IsSend(a) THEN a ELSE b
          r == IF IsSend(a) THEN b ELSE a
      IN /\ IsSend(s) /\ IsRecv(r)
         /\ SameKeyFields(s, r)
         /\ StrictlyEarlier(s, r)
         /\ ~SameStamp(s, r)

\* find_pairs has returned with a link made, and with a Send and a Receive of
\* equal key and equal timestamp that it left unlinked to each other
C1_Witness ==
  /\ pc = "paired"
  /\ \E a \in Ids : IsSend(a) /\ Linked(a)
  /\ \E s, r \in Ids :
       /\ IsSend(s) /\ IsRecv(r) /\ SameKeyFields(s, r) /\ SameStamp(s, r)
       /\ pair[s] # r /\ pair[r] # s

\* C2 (as claimed): a second call of find_pairs on the list the first call
\* left changes no event's pair link.
C2_SecondRunKeepsLinks == [][runs = 2 => pair' = pair]_vars

Mutual == \A a \in Ids : Linked(a) => (pair[a] # a /\ pair[pair[a]] = a)

OnePartnerEach ==
  \A a, b \in Ids : (a # b /\ Linked(a) /\ Linked(b)) => pair[a] # pair[b]

LinksAreKept == \A a \in Ids : Linked(a) => pair'[a] = pair[a]

\* C3: the links are a one-to-one, mutual matching (a's pair is b exactly
\* when b's pair is a, no event is the partner of two events), and a link,
\* once made, is not changed by a later matching step.
C3_OneToOneMatching ==
  [][/\ Mutual /\ OnePartnerEach
     /\ Mutual' /\ OnePartnerEach'
     /\ LinksAreKept]_vars

\* find_pairs has returned having made two links among events of one key
C3_Witness ==
  /\ pc = "paired"
  /\ \E a, b \in Ids :
       /\ a # b /\ IsSend(a) /\ IsSend(b) /\ Linked(a) /\ Linked(b)
       /\ SameKeyFields(a, b)

\* the position in data of the event that x is linked to
PosOfPartner(x) == CHOOSE j \in 1..Len(data) : data[j] = pair[x]

\* the Receives of the key of Send s that are not linked in `links` and are
\* strictly later than s, as positions of data
OpenReceives(links, s) ==
  {j \in 1..Len(data) :
     /\ IsRecv(data[j])
     /\ pair_key(ev[data[j]]) = pair_key(ev[s])
     /\ links[data[j]] = 0
     /\ TimeOf(ev[data[j]]) > TimeOf(ev[s])}

FirstOf(J) == CHOOSE j \in J : \A k \in J : j <= k

\* the greedy matching: the Sends of ss in order, each linked to its first
\* open Receive, if there is one
RECURSIVE Greedy(_, _)
Greedy(links, ss) ==
  IF ss = <<>> THEN links
  ELSE LET s == Head(ss)
           open == OpenReceives(links, s)
       IN IF open = {}
          THEN Greedy(links, Tail(ss))
          ELSE LET r == data[FirstOf(open)]
               IN Greedy([links EXCEPT ![s] = r, ![r] = s], Tail(ss))

NoLinks == [i \in Ids |-> 0]

\* C21: find_pairs computes the greedy matching and does not fail: the Sends
\* taken in sequence order, each Send is linked to the first Receive in
\* sequence order that has its key, is not yet linked and is strictly later;
\* a Send without such a Receive, also one whose key no Receive has, stays
\* unlinked, and a Send with such a Receive is linked.
C21_GreedyMatching ==
  pc = "paired" => pair = Greedy(NoLinks, SelectSeq(data, IsSend))

\* find_pairs returned having linked a Send to the earlier of two Receives
\* that were open for it and having left unlinked a Send whose key no
\* Receive has
C21_Witness ==
  /\ pc = "paired"
  /\ \E s \in Ids :
       /\ IsSend(s) /\ Linked(s)
       /\ \E j \in 1..Len(data) :
            /\ data[j] # pair[s] /\ j > PosOfPartner(s)
            /\ IsRecv(data[j]) /\ pair_key(ev[data[j]]) = pair_key(ev[s])
            /\ TimeOf(ev[data[j]]) > TimeOf(ev[s])
  /\ \E s \in Ids :
       /\ IsSend(s) /\ ~Linked(s)
       /\ \A r \in Ids : IsRecv(r) => pair_key(ev[r]) # pair_key(ev[s])

\* C22: after find_pairs on a time-sorted sequence the links of one key do
\* not cross: of two linked Sends of the same key, the Receive of the
\* earlier Send in the sequence is before the Receive of the later one.
C22_LinksDoNotCross ==
  pc = "paired" =>
    \A a, b \in 1..Len(data) :
       /\ a < b
       /\ IsSend(data[a]) /\ IsSend(data[b])
       /\ pair_key(ev[data[a]]) = pair_key(ev[data[b]])
       /\ Linked(data[a]) /\ Linked(data[b])
       => PosOfPartner(data[a]) < PosOfPartner(data[b])

\* two Sends of one key are linked, each to a Receive that is later than
\* both Sends
C22_Witness ==
  /\ pc = "paired"
  /\ \E a, b \in 1..Len(data) :
       /\ a < b
       /\ IsSend(data[a]) /\ IsSend(data[b])
       /\ pair_key(ev[data[a]]) = pair_key(ev[data[b]])
       /\ Linked(data[a]) /\ Linked(data[b])
       /\ PosOfPartner(data[a]) > b

----------------------------------------------------------------------------
(* Properties of filter_ids *)

FiReturned == fi_result # <<>>
FiIncluded == fi_result[1][1]
FiExcluded == fi_result[1][2]

MatchSet(tok, U) == {s \in U : matcher(tok, FiNames, s)}

\* "-cfm$, 0x17000-0x17fff, -0x17a34"
C8Filter ==
  <<StrTok("-", FALSE, <<"c", "f", "m">>, TRUE),
    HexTok("", <<"1", "7", "0", "0", "0">>, <<"1", "7", "f", "f", "f">>),
    HexTok("-", <<"1", "7", "a", "3", "4">>, <<>>)>>

C8Case ==
  /\ FiReturned
  /\ fi_filter = C8Filter
  /\ fi_idset = FiUniverse

\* C8 (as claimed): "-cfm$, 0x17000-0x17fff, -0x17a34" over {0x17000,
\* 0x17001, 0x17a34, 0x18000}, 0x17000 named FOO_CFM, includes 0x17001 and
\* includes none of 0x17000, 0x17a34 and 0x18000.
C8_ExampleAsClaimed ==
  C8Case =>
    /\ 94209 \in FiIncluded
    /\ 94208 \notin FiIncluded
    /\ 96820 \notin FiIncluded
    /\ 98304 \notin FiIncluded

IsDiffUnionDiff(f) ==
  Len(f) = 3 /\ f[1].ex = "-" /\ f[2].ex = "" /\ f[3].ex = "-"

\* C8 (amended): a filter -t1, t2, -t3 includes ((U \ M1) + M2) \ M3, where Mi
\* are the universe ids matching ti, and explicitly excludes M1 + M3; the
\* example includes 0x17000, 0x17001 and 0x18000, not 0x17a34, and explicitly
\* excludes 0x17000 and 0x17a34.
C8_DiffUnionDiff ==
  /\ (FiReturned /\ IsDiffUnionDiff(fi_filter)) =>
       LET M1 == MatchSet(fi_filter[1], fi_idset)
           M2 == MatchSet(fi_filter[2], fi_idset)
           M3 == MatchSet(fi_filter[3], fi_idset)
       IN /\ FiIncluded = ((fi_idset \ M1) \cup M2) \ M3
          /\ FiExcluded = M1 \cup M3
  /\ C8Case => (FiIncluded = {94208, 94209, 98304} /\ FiExcluded = {94208, 96820})

C8_Witness == C8Case

\* the selection and the explicitly-excluded set after the first n tokens
RECURSIVE Fold(_, _, _)
Fold(f, n, U) ==
  IF n = 0 THEN <<IF f[1].ex = "-" THEN U ELSE {}, {}>>
  ELSE LET before == Fold(f, n - 1, U)
           M == MatchSet(f[n], U)
       IN CASE f[n].ex = "" -> <<before[1] \cup M, before[2]>>
            [] f[n].ex = "~" -> <<before[1] \cap M, before[2]>>
            [] f[n].ex = "-" -> <<before[1] \ M, before[2] \cup M>>

\* C9: filter_ids is the left-to-right fold of the tokens: the selection
\* starts as the universe if the first token has prefix '-' and empty
\* otherwise; no prefix adds the matching universe ids, '~' keeps the selected
\* ids that match, '-' removes the matching ids and adds the matching
\* universe ids to the explicitly-excluded set; both sets are subsets of the
\* universe; an empty filter returns (universe, {}).
C9_LeftToRightFold ==
  FiReturned =>
    /\ FiIncluded \subseteq fi_idset
    /\ FiExcluded \subseteq fi_idset
    /\ fi_filter = <<>> => fi_result[1] = <<fi_idset, {}>>
    /\ fi_filter # <<>> => fi_result[1] = Fold(fi_filter, Len(fi_filter), fi_idset)

\* a filter with a union, an intersection and a difference token was
\* evaluated, and it selected and explicitly excluded something
C9_Witness ==
  /\ FiReturned
  /\ \E i, j, k \in DOMAIN fi_filter :
       fi_filter[i].ex = "" /\ fi_filter[j].ex = "~" /\ fi_filter[k].ex = "-"
  /\ FiIncluded # {} /\ FiExcluded # {}
  /\ FiIncluded # fi_idset

----------------------------------------------------------------------------
(* Properties of the filter step *)

AllIds == Iota(Len(ev))

SignalSelection == filter_ids(signal_filter, get_all_signals(AllIds), signals)[1]

MailboxSelection == filter_ids(mailbox_filter, get_all_boxes(AllIds), mailboxes)

FilterStepDone == pc \in {"filtered", "exit"}

NonColonCase == FilterStepDone /\ ~dual /\ mailbox_filter # <<>>

C10Kept(i) ==
  /\ ev[i].signo \in SignalSelection
  /\ ev[i].sender \in MailboxSelection[1] \/ ev[i].receiver \in MailboxSelection[1]
  /\ ~(ev[i].sender \in MailboxSelection[2] \/ ev[i].receiver \in MailboxSelection[2])

\* C10: with a mailbox filter without ':', the events left are, in their
\* original order, exactly those whose signo is in the signal selection, whose
\* sender or receiver is in the mailbox selection, and of which neither
\* sender nor receiver is in the explicitly-excluded set of the mailbox filter.
C10_NonColonFilter == NonColonCase => data = SelectSeq(AllIds, C10Kept)

\* a run kept one event and dropped another whose sender is selected but
\* whose receiver is explicitly excluded
C10_Witness ==
  /\ NonColonCase
  /\ data # <<>>
  /\ \E i \in Ids :
       /\ ev[i].signo \in SignalSelection
       /\ ev[i].sender \in MailboxSelection[1]
       /\ ev[i].receiver \in MailboxSelection[2]
       /\ \A j \in 1..Len(data) : data[j] # i

HalfA == filter_ids(mailbox_filter, get_all_boxes(AllIds), mailboxes)

HalfB == filter_ids(mailbox_filter2, get_all_boxes(AllIds), mailboxes)

DualCase == FilterStepDone /\ dual

\* sender in the selection X and receiver in the selection Y
FromTo(i, X, Y) == ev[i].sender \in X /\ ev[i].receiver \in Y

C11Kept(i) ==
  /\ ev[i].signo \in SignalSelection
  /\ FromTo(i, HalfA[1], HalfB[1]) \/ FromTo(i, HalfB[1], HalfA[1])

\* what the comprehension of lines 657-659 leaves for the filter "B:A"
SwappedHalves ==
  SelectSeq(AllIds, LAMBDA i : KeepColon(i, SignalSelection, HalfB[1], HalfA[1]))

\* C11: with a mailbox filter "A:B", each half is evaluated on its own over
\* all the mailboxes of the events; the events left are, in their original
\* order, exactly those whose signo is in the signal selection and whose
\* sender is in A and receiver in B, or sender in B and receiver in A; with
\* the halves swapped the result is the same.
C11_DualFilter ==
  DualCase => /\ data = SelectSeq(AllIds, C11Kept)
              /\ data = SwappedHalves

\* a run with different halves kept an event only by the orientation
\* sender in B, receiver in A, and dropped another event
C11_Witness ==
  /\ DualCase
  /\ HalfA[1] # HalfB[1]
  /\ Len(data) < Len(ev)
  /\ \E j \in 1..Len(data) :
       /\ FromTo(data[j], HalfB[1], HalfA[1])
       /\ ~FromTo(data[j], HalfA[1], HalfB[1])

ExcludedOfHalves == HalfA[2] \cup HalfB[2]

TouchesExcluded(i) ==
  ev[i].sender \in ExcludedOfHalves \/ ev[i].receiver \in ExcludedOfHalves

\* C12 as claimed: with a mailbox filter "A:B", no event whose sender or
\* receiver is in the explicitly-excluded set of either half is left.
C12_DualEnforcesExcluded ==
  DualCase => \A j \in 1..Len(data) : ~TouchesExcluded(data[j])

\* C12: the explicitly-excluded sets are enforced only without ':' (no event
\* left has its sender or receiver in the set); with "A:B" the sets are not
\* used, and every event that satisfies the condition of the included sets
\* is left, also when its sender or receiver is in the explicitly-excluded
\* set of a half.
C12_ExcludedOnlyWithoutColon ==
  /\ NonColonCase =>
       \A j \in 1..Len(data) :
          /\ ev[data[j]].sender \notin MailboxSelection[2]
          /\ ev[data[j]].receiver \notin MailboxSelection[2]
  /\ DualCase =>
       \A i \in Ids :
          C11Kept(i) /\ TouchesExcluded(i) => \E j \in 1..Len(data) : data[j] = i

\* a run with "A:B" left an event whose receiver or sender is explicitly
\* excluded by a half
C12_Witness ==
  /\ DualCase
  /\ ExcludedOfHalves # {}
  /\ \E j \in 1..Len(data) : TouchesExcluded(data[j])

----------------------------------------------------------------------------
(* Properties of batch mode *)

Presented == pc = "presented"

\* the position of the event x in the list d
PosIn(d, x) == CHOOSE j \in 1..Len(d) : d[j] = x

ElemsOf(d) == {d[j] : j \in 1..Len(d)}

\* the elements of s are pairwise different and in the order they have in d
KeepsOrderOf(s, d) ==
  \A a \in 1..Len(s) : \A b \in (a + 1)..Len(s) :
     /\ s[a] # s[b]
     /\ PosIn(d, s[a]) < PosIn(d, s[b])

\* C19: filter_duplicates returns, in their original order, exactly the
\* events that are Sends or have no pair link.
C19_FilterDuplicates ==
  Presented =>
    /\ ElemsOf(shown[1]) = {i \in ElemsOf(data) : IsSend(i) \/ ~Linked(i)}
    /\ KeepsOrderOf(shown[1], data)

\* a presenter kept a linked Send and an unlinked Receive and dropped a
\* linked Receive
C19_Witness ==
  /\ Presented
  /\ \E a, b, c \in ElemsOf(data) :
       /\ IsSend(a) /\ Linked(a) /\ a \in ElemsOf(shown[1])
       /\ IsRecv(b) /\ ~Linked(b) /\ b \in ElemsOf(shown[1])
       /\ IsRecv(c) /\ Linked(c) /\ c \notin ElemsOf(shown[1])

\* ascending by (seconds, microseconds), events of equal key in the order
\* they were read (the object ids number the events in read order)
AscendingStable(s) ==
  \A a \in 1..Len(s) : \A b \in (a + 1)..Len(s) :
     \/ KeyLess(s[a], s[b])
     \/ KeyOf(s[a]) = KeyOf(s[b]) /\ s[a] < s[b]

IsPermutationOfDecoded(s) == Len(s) = Len(ev) /\ ElemsOf(s) = Ids

\* C20: the list given to find_pairs and to the presenters is a permutation
\* of the decoded events of all the files, ascending by (seconds,
\* microseconds), events of equal key in read order; the filters and the
\* duplicate suppression keep that order.
C20_SortedStable ==
  /\ pc \in {"sorted", "pairing", "paired"} =>
       IsPermutationOfDecoded(data) /\ AscendingStable(data)
  /\ pc \in {"filtered", "exit", "presented"} =>
       AscendingStable(data)
  /\ Presented => AscendingStable(shown[1])

\* events read out of time order and two of equal key were sorted, and the
\* two of equal key are both presented
C20_Witness ==
  /\ Presented
  /\ \E i, j \in Ids : i < j /\ KeyLess(j, i)
  /\ \E i, j \in ElemsOf(shown[1]) : i < j /\ KeyOf(i) = KeyOf(j)
  /\ Len(data) < Len(ev)

Kept(i) == i \in ElemsOf(data)

Occurrences(d, x) == Cardinality({j \in 1..Len(d) : d[j] = x})

\* C23: the filters applied after the pairing do not separate a pair: with
\* and without ':', a linked event is kept exactly when its partner is kept,
\* and after the duplicate suppression every linked message that passed the
\* filters is shown exactly once, as its Send.
C23_FilterKeepsPairsTogether ==
  /\ pc \in {"filtered", "exit", "presented"} =>
       \A i \in Ids : Linked(i) => (Kept(i) <=> Kept(pair[i]))
  /\ Presented =>
       \A i \in Ids :
          Linked(i) /\ IsSend(i) /\ Kept(i) =>
            /\ Occurrences(shown[1], i) = 1
            /\ Occurrences(shown[1], pair[i]) = 0

\* a filter with ':' that is not empty kept a linked pair, which is
\* presented as its Send alone
C23_Witness ==
  /\ Presented
  /\ dual
  /\ mailbox_filter # <<>>
  /\ \E i \in Ids : Linked(i) /\ IsSend(i) /\ Kept(i) /\ shown[1] = <<i>>

----------------------------------------------------------------------------
(* Properties of the operations on ship files *)

\* the magic is at byte offset k of f
MagicAt(f, k) == k + 4 <= Len(f) /\ SubSeq(f, k + 1, k + 4) = Magic

HasMagic(f) == \E k \in 0..Len(f) : MagicAt(f, k)

\* the offset of the first magic of f
MagicOffset(f) == CHOOSE k \in 0..Len(f) : MagicAt(f, k) /\ \A j \in 0..(k - 1) : ~MagicAt(f, j)

HeaderFound == header # <<>>

ValidHeader == HeaderFound /\ header[1][1]

Returned == fpc \in {"returned", "done"}

\* the search for the magic has read the end of the stream and read again
ReadsPastEnd == reads_at_end > 1

\* C13: clear_file, returning from a file with a valid header, has left
\* every byte up to and including the 8-byte header as it was, has set every
\* byte behind the header to zero, and has kept the length of the file.
C13_ClearKeepsHeaderZeroesRest ==
  op = "clear" /\ Returned /\ ValidHeader =>
    /\ Len(file) = Len(original)
    /\ \A i \in 1..Len(file) :
         file[i] = IF i <= MagicOffset(original) + 8 THEN original[i] ELSE 0

\* clear_file returned from a file with leading bytes, a valid header and
\* records of which a byte was not zero
C13_Witness ==
  /\ op = "clear" /\ Returned /\ ValidHeader
  /\ MagicOffset(original) > 0
  /\ written # <<>>
  /\ file # original

\* the file has no magic anywhere, or its version is not 1 or 2
FailsValidation(f) ==
  \/ ~HasMagic(f)
  \/ /\ MagicOffset(f) + 8 <= Len(f)
     /\ \E w \in Writers :
          /\ w.version = 3
          /\ SubSeq(f, MagicOffset(f) + 5, MagicOffset(f) + 8) = w.bom \o w.ver

\* C14 as claimed: clear_file on a file that has no magic anywhere or has an
\* unsupported version returns with the invalid-file failure and leaves
\* every byte as it was: it does not go on reading behind the end of the
\* stream, and when it has returned the failure is reported.
C14_ClearInvalidReturnsUnmodified ==
  op = "clear" /\ FailsValidation(original) =>
    /\ file = original
    /\ ~ReadsPastEnd
    /\ Returned => ferr = <<NotValid>>

\* C15 as claimed: the search for the magic ends on every finite stream: a
\* magic at any byte offset is found, so the search of a file that has one
\* never reads the end of the stream, and at the end of a stream without a
\* magic the header is reported invalid, so the search never reads again
\* after a read that returned the end of the stream.
C15_SearchEndsAtEndOfStream ==
  /\ ~ReadsPastEnd
  /\ HasMagic(original) => reads_at_end = 0

\* C16 as claimed: in batch mode a file with an invalid header (magic not
\* found, or unsupported version) gives no events and the files behind it
\* are still decoded: read_binary does not go on reading such a file behind
\* the end of its stream, and returns the empty list for it.
C16_InvalidFileOnlySkipsItself ==
  op = "read" /\ ~keep_zeros /\ FailsValidation(original) =>
    /\ ~ReadsPastEnd
    /\ Returned => result = <<>>

\* the written records as read_binary returns them: a version 1 record has
\* no procId and no connId
AsEntry(r) ==
  IF header[1][3] = 1 THEN [r EXCEPT !.procId = <<>>, !.connId = <<>>] ELSE r

WrittenEntries == [k \in 1..Len(written) |-> AsEntry(written[k])]

NotUnwritten(e) == e.seconds # 0

ExpectedResult ==
  IF keep_zeros THEN WrittenEntries ELSE SelectSeq(WrittenEntries, NotUnwritten)

\* read_binary has ended, by a return or by an exception
Ended == fpc \in {"returned", "done", "raised"}

\* C17 as claimed: on a file with a valid header whose bytes behind the
\* header are not a whole number of records, read_binary does not fail and
\* returns the records decoded from the complete records.
C17_PartialRecordNotFatal ==
  op = "read" /\ ValidHeader /\ Ended => fpc # "raised" /\ result = ExpectedResult

\* C18: read_binary returns with keep_zeros false, in file order, exactly
\* the records whose seconds field is not zero, and with keep_zeros true
\* every record, entry i being slot i of the file; in version 1 and in
\* version 2 files.
C18_KeepZeros ==
  op = "read" /\ ValidHeader /\ Returned =>
    /\ result = ExpectedResult
    /\ keep_zeros => /\ Len(result) = Len(written)
                     /\ \A i \in 1..Len(result) : result[i] = AsEntry(written[i])
    /\ ~keep_zeros => \A i \in 1..Len(result) : result[i].seconds # 0

\* read_binary returned from a big-endian version 2 file with an unwritten
\* slot before a written one, and left the unwritten one out
C18_Witness ==
  /\ op = "read" /\ ValidHeader /\ Returned
  /\ ~keep_zeros
  /\ header[1] = <<TRUE, ">", 2>>
  /\ Len(written) = 2
  /\ written[1].seconds = 0
  /\ result = <<written[2]>>

----------------------------------------------------------------------------
(* Properties of stream_files *)

\* a poll of the file has just ended
Polled == spc \in {"first", "polled"}

Unwritten(e) == e.seconds = 0

\* entry i of the new sequence differs from the previous snapshot at i
NewAt(i) == i > Len(previous) \/ entries[i] # previous[i]

\* the entries of `entries` at the indexes of I from index i on, in index order
RECURSIVE EntriesAt(_, _)
EntriesAt(I, i) ==
  IF i > Len(entries) THEN <<>>
  ELSE IF i \in I THEN <<entries[i]>> \o EntriesAt(I, i + 1)
  ELSE EntriesAt(I, i + 1)

\* C4: a poll prints exactly, in index order, the entries i with
\* seconds != 0 that lie beyond the previous snapshot or differ from its
\* entry i; no unwritten record and no unchanged entry is printed.
C4_PrintsNewNonZero ==
  Polled =>
    /\ printed = EntriesAt({i \in 1..Len(entries) :
                              ~Unwritten(entries[i]) /\ NewAt(i)}, 1)
    /\ \A k \in 1..Len(printed) : ~Unwritten(printed[k])
    /\ Len(printed) = Cardinality({i \in 1..Len(entries) :
                                     ~Unwritten(entries[i]) /\ NewAt(i)})

\* a poll printed a record and skipped an unchanged written slot, a changed
\* unwritten slot being absent from the output
C4_Witness ==
  /\ Polled
  /\ printed # <<>>
  /\ \E i \in 1..Len(entries) : ~Unwritten(entries[i]) /\ ~NewAt(i)
  /\ Len(printed) < Len(entries)

\* no written entry of the new sequence equals the previous snapshot's entry
NoMatch ==
  \A i \in 1..Len(entries) : ~(~Unwritten(entries[i]) /\ ~NewAt(i))

\* C5 (as claimed): with a non-empty previous snapshot, "signals may have
\* been lost" is reported whenever no written entry of the new sequence
\* equals the previous snapshot's entry at its index.
C5_LostWheneverNoMatch ==
  (Polled /\ previous # <<>> /\ NoMatch) => "lost" \in stderr

\* C5 (amended): with a non-empty previous snapshot, "signals may have been
\* lost" is reported exactly when the new sequence has no unwritten slot and
\* no written entry equal to the previous snapshot's entry at its index; with
\* a slot still unwritten it is not reported.
C5_LostIffAllNew ==
  (Polled /\ previous # <<>>) =>
    ("lost" \in stderr <=>
       \A i \in 1..Len(entries) : ~Unwritten(entries[i]) /\ NewAt(i))

\* a poll over a written ring of which every slot changed reported the loss
C5_Witness ==
  /\ Polled
  /\ previous # <<>>
  /\ entries # <<>>
  /\ \E i \in 1..Len(previous) : ~Unwritten(previous[i])
  /\ "lost" \in stderr

\* C6 (as claimed): the first poll of a file, when some slot of it is
\* unwritten, reports that initial signals may have been lost.
C6_InitialLossOnPartialRing ==
  (spc = "first" /\ \E i \in 1..Len(entries) : Unwritten(entries[i]))
    => "initial" \in stderr

\* C6 (amended): a poll reports that initial signals may have been lost
\* exactly when the file has no or an empty previous snapshot and no slot of
\* the decoded sequence is unwritten; a file found at the start has its
\* snapshot taken before its first poll.
C6_InitialLossIffNoSnapshotAndFull ==
  Polled =>
    ("initial" \in stderr <=>
       (previous = <<>> /\ \A i \in 1..Len(entries) : ~Unwritten(entries[i])))

\* the first poll of a file detected after the start found its ring fully
\* written and reported the initial loss
C6_Witness ==
  /\ spc = "first"
  /\ "detected" \in stderr
  /\ entries # <<>>
  /\ "initial" \in stderr

\* between the previous snapshot and this poll some unwritten slots were
\* written and nothing else changed
OnlyNewWrites ==
  /\ Polled
  /\ "detected" \notin stderr
  /\ Len(previous) = Len(entries)
  /\ \A i \in 1..Len(entries) :
       entries[i] = previous[i] \/ (Unwritten(previous[i]) /\ ~Unwritten(entries[i]))
  /\ \E i \in 1..Len(entries) : entries[i] # previous[i]

NewlyWritten ==
  EntriesAt({i \in 1..Len(entries) : entries[i] # previous[i]}, 1)

\* C7 (as claimed): such a poll prints exactly the newly written records and
\* reports no loss, whatever the ring size.
C7_NewWritesNoLoss ==
  OnlyNewWrites =>
    /\ printed = NewlyWritten
    /\ "lost" \notin stderr /\ "initial" \notin stderr

\* C7 (amended): such a poll prints exactly the newly written records and
\* never reports an initial loss; it reports no loss when a slot is left
\* unwritten or a written slot is unchanged, and it reports "signals may have
\* been lost" when every slot was unwritten before and is written now.
C7_NewWritesLossIffAllWritten ==
  OnlyNewWrites =>
    /\ printed = NewlyWritten
    /\ "initial" \notin stderr
    /\ "lost" \in stderr <=>
         \A i \in 1..Len(entries) : Unwritten(previous[i]) /\ ~Unwritten(entries[i])

\* the last unwritten slot of a ring was written, next to an unchanged
\* written slot, and the poll printed it with no diagnostic
C7_Witness ==
  /\ OnlyNewWrites
  /\ \A i \in 1..Len(entries) : ~Unwritten(entries[i])
  /\ \E i \in 1..Len(entries) : entries[i] = previous[i]
  /\ Len(printed) = 1
  /\ stderr = {}

\* the poll that just ended is the second or a later one of the file, and it
\* decoded what the poll before it decoded
SameAsPollBefore == spc = "polled" /\ entries = previous

\* C24: a poll that decodes the same contents as the poll before it prints
\* no record and does not report "Signals may have been lost"; after every
\* poll the snapshot stored for the file is the sequence decoded in it.
C24_UnchangedFileIsSilent ==
  /\ SameAsPollBefore => printed = <<>> /\ "lost" \notin stderr
  /\ Polled => previous_data = <<entries>>

\* two polls in a row decoded the same ring, which holds a written slot
C24_Witness ==
  /\ SameAsPollBefore
  /\ \E i \in 1..Len(entries) : ~Unwritten(entries[i])
  /\ previous_data = <<entries>>

====
